---- MODULE Spec2Model ----
(***************************************************************************)
(* The submission archive pipeline of icebox: the SQS-driven archive       *)
(* worker (processUploadArchive), the download-token resolution            *)
(* (getDownloadUrl), the admin delete and reminder handlers, and the       *)
(* completion action that enqueues the archive job.                        *)
(*                                                                         *)
(* One submission record is modelled (the handlers share no state across   *)
(* submissions).  Every awaited call to the record store or the object     *)
(* store is one atomic step; the handlers interleave between such steps.   *)
(* Time is counted in days: an ISO timestamp written by toISOString() and  *)
(* read back by Date.parse() is the same instant, so a timestamp is the    *)
(* day number it was taken on.                                             *)
(***************************************************************************)
EXTENDS Integers, Sequences, FiniteSets, TLC

\* ------------------------------------------------------------------ bounds
MaxFiles == 2          \* files of the submission: 1 .. MaxFiles
MaxTicks == 2          \* how many times the clock advances
MaxReminders == 1      \* admin reminder requests
MaxFaults == 2         \* failed collaborator calls and dead invocations

\* ------------------------------------------------------- program constants
DEFAULT_EXPIRY_MS == 28           \* 28 * 24 * 60 * 60 * 1000 ms, in days
DOWNLOAD_LINK_TTL_SECONDS == 900
MaxReceiveCount == 3              \* redrive policy of the archive queue

\* An absent downloadToken / timestamp / error attribute of a record.
NoToken == 0
NoTime == -1
NoError == "none"

SubmissionId == "s1"
UnknownId == "s2"
Workers == {"w1", "w2"}           \* concurrent deliveries of the job
Resolvers == {"d1", "d2"}         \* concurrent download resolutions
TickSteps == {1, DEFAULT_EXPIRY_MS}

VARIABLES
  rec,        \* the submission record in the assignments table
  created,    \* the object keys the record was created with (never changes)
  s3,         \* the object keys present in the assignments bucket
  queue,      \* the archive job message of the submission
  wk,         \* the archive worker invocations, one per delivery slot
  adm,        \* the admin delete handler invocation
  cu,         \* the completion action's position
  clock,      \* [now, ticks]
  ids,        \* [token, stamp]: the last uuid() and Date.now() stamp drawn
  resp,       \* the response of the download resolution, until it is delivered
  dl,         \* the download resolutions in flight, one position per invocation
  viewed,     \* how many "work viewed" notifications were sent
  calc,       \* a call of a function on its own: its arguments and results
  faults,     \* how many collaborator calls have failed or invocations died
  mail        \* the completion emails: whether a send was attempted, and the
              \* download tokens of the links that were sent

vars ==
  <<rec, created, s3, queue, wk, adm, cu, clock, ids, resp, dl, viewed, calc, faults,
    mail>>

now == clock.now

\* ------------------------------------------------------------ file records
OriginalKey(i) == [kind |-> "upload", n |-> i]
ArchiveKey(sid, stamp) == [kind |-> "archive", n |-> stamp]
OriginalName(i) == [kind |-> "name", n |-> i]
ZipName(sid) == [kind |-> "zip", n |-> 0]

\* createUploadSession: the record of file i, with its credentials, or (a
\* record written before credentials were assigned at upload) without them.
UploadedFile(i, withCreds, t) ==
  [ fileName |-> OriginalName(i),
    contentType |-> "application/octet-stream",
    size |-> i,
    objectKey |-> OriginalKey(i),
    downloadToken |-> IF withCreds THEN i ELSE NoToken,
    expiresAt |-> IF withCreds THEN t + DEFAULT_EXPIRY_MS ELSE NoTime ]

ObjectKeys(files) == {files[i].objectKey : i \in 1..Len(files)}
KeySeq(files) == [i \in 1..Len(files) |-> files[i].objectKey]
TokenSeq(files) == [i \in 1..Len(files) |-> files[i].downloadToken]

\* ----------------------------------------------------------------- uuid()
uuid_Repeats(seed, k) == seed + 1

\* The k-th token drawn after `seed` tokens were drawn: never drawn before.
uuid(seed, k) == seed + k

\* ------------------------------------------------------------------- Init
\* What a handler keeps of the record as it stood right after its own write.
Snapshot(r) ==
  [ status |-> r.status, files |-> r.files, lastError |-> r.lastError,
    deletedAt |-> r.deletedAt, completedAt |-> r.completedAt ]

NoSnapshot ==
  [ status |-> "none", files |-> <<>>, lastError |-> NoError,
    deletedAt |-> NoTime, completedAt |-> NoTime ]

IdleWorker ==
  [ pc |-> "idle", job |-> "none", seen |-> "none", branch |-> "none",
    stored |-> <<>>, files |-> <<>>,
    needUpdate |-> FALSE, expiry |-> NoTime,
    archiveKey |-> ArchiveKey(SubmissionId, 0), archiveToken |-> NoToken,
    idx |-> 0, size |-> 0,
    s3Calls |-> 0, dbWrites |-> 0, sent |-> 0, uploaded |-> FALSE,
    deleted |-> FALSE, failedAt |-> "none", faulted |-> FALSE, marks |-> 0,
    links |-> <<>>, result |-> "none", after |-> NoSnapshot ]

NoCalc == [fn |-> "none"]

NoMail == [attempted |-> FALSE, tokens |-> {}]

NoResp ==
  [ status |-> 0, location |-> <<>>, sid |-> UnknownId, token |-> NoToken,
    at |-> NoTime, found |-> FALSE, files |-> <<>>, recStatus |-> "none",
    objectExists |-> FALSE ]

IdleResolver == [pc |-> "idle", response |-> NoResp]

Init ==
  \E n \in 1..MaxFiles, withCreds \in BOOLEAN, studentEmail \in {"student", "none"} :
    /\ rec = [ status |-> "PENDING",
               files |-> [i \in 1..n |-> UploadedFile(i, withCreds, 0)],
               createdAt |-> 0,
               completedAt |-> NoTime,
               lastError |-> NoError,
               deletedAt |-> NoTime,
               deletedBy |-> "none",
               reminderCount |-> 0,
               studentEmail |-> studentEmail,
               firstAccessedAt |-> NoTime,
               lastAccessedAt |-> NoTime ]
    /\ created = [i \in 1..n |-> OriginalKey(i)]
    /\ s3 = {OriginalKey(i) : i \in 1..n}
    /\ queue = [present |-> FALSE, receives |-> 0, stray |-> "none"]
    /\ wk = [w \in Workers |-> IdleWorker]
    /\ adm = [pc |-> "idle", keys |-> {}, code |-> 0]
    /\ cu = "idle"
    /\ clock = [now |-> 0, ticks |-> 0]
    /\ ids = [token |-> MaxFiles, stamp |-> 0]
    /\ resp = NoResp
    /\ dl = [d \in Resolvers |-> IdleResolver]
    /\ viewed = 0
    /\ calc = NoCalc
    /\ faults = 0
    /\ mail = NoMail

\* ------------------------------------------------------------------ clock
Quiescent ==
  /\ \A w \in Workers : wk[w].pc \in {"idle", "done"}
  /\ adm.pc \in {"idle", "done"}
  /\ cu # "enqueue"
  /\ \A d \in Resolvers : dl[d].pc = "idle"

Tick ==
  /\ clock.ticks < MaxTicks
  /\ Quiescent
  /\ \E d \in TickSteps : clock' = [now |-> clock.now + d, ticks |-> clock.ticks + 1]
  /\ resp' = NoResp
  /\ UNCHANGED <<rec, created, s3, queue, wk, adm, cu, ids, dl, viewed, calc, faults, mail>>

\* ------------------------------------------------------ completion action
\* POST /uploads/{submissionId}/complete: marks the record PENDING_ARCHIVE
\* and then sends the archive job {submissionId, requestedAt,
\* downloadBaseUrl} to the queue.
CompleteMark ==
  /\ cu = "idle"
  /\ rec.status = "PENDING"
  /\ rec' = [rec EXCEPT !.status = "PENDING_ARCHIVE"]
  /\ cu' = "enqueue"
  /\ resp' = NoResp
  /\ UNCHANGED <<created, s3, queue, wk, adm, clock, ids, dl, viewed, calc, faults, mail>>

CompleteEnqueue ==
  /\ cu = "enqueue"
  /\ queue' = [queue EXCEPT !.present = TRUE, !.receives = 0]
  /\ cu' = "done"
  /\ resp' = NoResp
  /\ UNCHANGED <<rec, created, s3, wk, adm, clock, ids, dl, viewed, calc, faults, mail>>

\* The send to the queue raises: the record is marked ARCHIVE_QUEUE_FAILED
\* with the reason, and no job exists.
QueueFailedUpdate_StaysPending(record, reason) == record

QueueFailedUpdate(record, reason) ==
  [record EXCEPT !.status = "ARCHIVE_QUEUE_FAILED", !.lastError = reason]

CompleteEnqueueFails ==
  /\ cu = "enqueue"
  /\ faults < MaxFaults
  /\ rec' = QueueFailedUpdate(rec, "Failed to enqueue archive job")
  /\ cu' = "failed"
  /\ faults' = faults + 1
  /\ resp' = NoResp
  /\ UNCHANGED <<created, s3, queue, wk, adm, clock, ids, dl, viewed, calc, mail>>

\* --------------------------------------------------------- archive worker
\* How many of the files 1..i of `stored` lack a downloadToken.
Missing(stored, i) ==
  Cardinality({j \in 1..i : stored[j].downloadToken = NoToken})

filesWithTokens_Regenerates(stored, seed, defaultExpiryDate) ==
  [ i \in 1..Len(stored) |->
      [ stored[i] EXCEPT
          !.downloadToken = uuid(seed, i),
          !.expiresAt = defaultExpiryDate ] ]

\* storedFiles.map(...): a file keeps the token and the expiry it has and is
\* given a new token, the default expiry, where it has none.
filesWithTokens(stored, seed, defaultExpiryDate) ==
  [ i \in 1..Len(stored) |->
      [ stored[i] EXCEPT
          !.downloadToken = IF @ = NoToken THEN uuid(seed, Missing(stored, i)) ELSE @,
          !.expiresAt = IF @ = NoTime THEN defaultExpiryDate ELSE @ ] ]

filesNeedUpdate(stored) ==
  \E i \in 1..Len(stored) :
    stored[i].downloadToken = NoToken \/ stored[i].expiresAt = NoTime

shouldCreateArchive_Always(files) == Len(files) >= 1

\* Line 110: filesWithTokens.length > 1
shouldCreateArchive(files) == Len(files) > 1

IsAlreadyCompleted_Never(submission) == FALSE

\* Line 76: submission.status === 'COMPLETED'
IsAlreadyCompleted(submission) == submission.status = "COMPLETED"

\* The single record that replaces the file list after archiving.
archiveRecord(sid, archiveSize, archiveKey, archiveToken, defaultExpiryDate) ==
  [ fileName |-> ZipName(sid),
    contentType |-> "application/zip",
    size |-> archiveSize,
    objectKey |-> archiveKey,
    downloadToken |-> archiveToken,
    expiresAt |-> defaultExpiryDate ]

finalFiles_Appended(r) ==
  IF shouldCreateArchive(r.files)
  THEN r.files \o
       << archiveRecord(SubmissionId, r.size, r.archiveKey, r.archiveToken, r.expiry) >>
  ELSE r.files

\* Lines 109 and 138-147.
finalFiles(r) ==
  IF shouldCreateArchive(r.files)
  THEN << archiveRecord(SubmissionId, r.size, r.archiveKey, r.archiveToken, r.expiry) >>
  ELSE r.files

\* The handler returns (the message is deleted) or throws (it stays queued).
Finish(r, result) ==
  [ IdleWorker EXCEPT
      !.pc = "done", !.result = result, !.job = r.job, !.seen = r.seen,
      !.branch = r.branch,
      !.s3Calls = r.s3Calls, !.dbWrites = r.dbWrites, !.sent = r.sent,
      !.deleted = r.deleted, !.failedAt = r.failedAt, !.faulted = r.faulted,
      !.marks = r.marks, !.links = r.links, !.after = r.after ]
Acknowledge == [queue EXCEPT !.present = FALSE]

\* The record store's GetCommand for a submission id.
GetItem(sid) ==
  IF sid = SubmissionId THEN [found |-> TRUE, item |-> rec]
  ELSE [found |-> FALSE, item |-> rec]

\* The invocations are interchangeable: the second slot takes a delivery only
\* while the first is busy, i.e. it holds the concurrent duplicate.
SlotFree(w) == w = "w1" \/ wk["w1"].pc \notin {"idle", "done"}

\* A message naming a submission that has no record arrives in the queue
\* (line 54: the id is whatever the message body says).
StrayJob ==
  /\ queue.stray = "none"
  /\ queue' = [queue EXCEPT !.stray = "queued"]
  /\ resp' = NoResp
  /\ UNCHANGED <<rec, created, s3, wk, adm, cu, clock, ids, dl, viewed, calc, faults, mail>>

\* The submission ids of the messages that can be delivered.
Jobs ==
  (IF queue.present /\ queue.receives < MaxReceiveCount THEN {SubmissionId} ELSE {})
    \cup (IF queue.stray = "queued" THEN {UnknownId} ELSE {})

IsAbsent_Never(submissionResult) == FALSE

\* Line 70: !submissionResult.Item
IsAbsent(submissionResult) == ~submissionResult.found

\* A delivery of a job: lines 53-114, up to the first call after the load.
WorkerReceive(w) ==
  /\ wk[w].pc \in {"idle", "done"}
  /\ SlotFree(w)
  /\ \E job \in Jobs :
     LET got == GetItem(job)
         submission == got.item
         storedFiles == submission.files
         defaultExpiryDate == now + DEFAULT_EXPIRY_MS
         withTokens == filesWithTokens(storedFiles, ids.token, defaultExpiryDate)
         drawn == Missing(storedFiles, Len(storedFiles))
         start == [IdleWorker EXCEPT !.job = job,
                                     !.seen = submission.status,
                                     !.stored = storedFiles]
     IN
       IF IsAbsent(got)
       THEN /\ wk' = [wk EXCEPT ![w] =
                       Finish([IdleWorker EXCEPT !.job = job, !.branch = "absent"],
                              "returned")]
            /\ queue' = [queue EXCEPT !.stray = "dropped"]
            /\ ids' = ids
       ELSE IF IsAlreadyCompleted(submission)
       THEN /\ wk' = [wk EXCEPT ![w] =
                       Finish([start EXCEPT !.branch = "completed"], "returned")]
            /\ queue' = [Acknowledge EXCEPT !.receives = queue.receives + 1]
            /\ ids' = ids
       ELSE IF Len(storedFiles) = 0
       THEN /\ wk' = [wk EXCEPT ![w] = [start EXCEPT !.pc = "noFiles", !.branch = "noFiles"]]
            /\ queue' = [queue EXCEPT !.receives = @ + 1]
            /\ ids' = ids
       ELSE IF shouldCreateArchive(withTokens)
       THEN /\ wk' = [wk EXCEPT ![w] =
                       [start EXCEPT !.pc = "getObject", !.idx = 1,
                                     !.branch = "archive",
                                     !.files = withTokens,
                                     !.needUpdate = filesNeedUpdate(storedFiles),
                                     !.expiry = defaultExpiryDate,
                                     !.archiveKey = ArchiveKey(SubmissionId, ids.stamp + 1),
                                     !.archiveToken = uuid(ids.token, drawn + 1)]]
            /\ queue' = [queue EXCEPT !.receives = @ + 1]
            /\ ids' = [token |-> uuid(ids.token, drawn + 1), stamp |-> ids.stamp + 1]
       ELSE /\ wk' = [wk EXCEPT ![w] =
                       [start EXCEPT !.pc = "update", !.branch = "single",
                                     !.files = withTokens,
                                     !.needUpdate = filesNeedUpdate(storedFiles),
                                     !.expiry = defaultExpiryDate]]
            /\ queue' = [queue EXCEPT !.receives = @ + 1]
            /\ ids' = [ids EXCEPT !.token = uuid(ids.token, drawn)]
  /\ resp' = NoResp
  /\ UNCHANGED <<rec, created, s3, adm, cu, clock, dl, viewed, calc, faults, mail>>

nextStep_DeleteFirst(pc) ==
  CASE pc = "getObject" -> "deleteObjects"
    [] pc = "deleteObjects" -> "upload"
    [] pc = "upload" -> "headObject"
    [] pc = "headObject" -> "update"

\* The order of the awaited calls of the archive path: createZipArchive
\* (the originals are read, the archive is uploaded, its size is read back),
\* then DeleteObjects of the originals, then the success update.
nextStep(pc) ==
  CASE pc = "getObject" -> "upload"
    [] pc = "upload" -> "headObject"
    [] pc = "headObject" -> "deleteObjects"
    [] pc = "deleteObjects" -> "update"

\* The error a step raised is caught at line 320; the failure is recorded.
Raise(r) == [r EXCEPT !.pc = "markFailure", !.failedAt = r.pc]

\* createZipArchive, lines 75-88: GetObject of the next original.  A key that
\* is not in the bucket makes the call throw (NoSuchKey).
WorkerGetObject(w) ==
  /\ wk[w].pc = "getObject"
  /\ LET r == [wk[w] EXCEPT !.s3Calls = @ + 1]
         key == r.files[r.idx].objectKey
     IN wk' = [wk EXCEPT ![w] =
                 IF key \notin s3 THEN Raise(r)
                 ELSE IF r.idx < Len(r.files) THEN [r EXCEPT !.idx = @ + 1]
                 ELSE [r EXCEPT !.pc = nextStep(r.pc)]]
  /\ resp' = NoResp
  /\ UNCHANGED <<rec, created, s3, queue, adm, cu, clock, ids, dl, viewed, calc, faults, mail>>

\* createZipArchive, lines 90-92: the archive is finalized and uploaded.
WorkerUpload(w) ==
  /\ wk[w].pc = "upload"
  /\ s3' = s3 \cup {wk[w].archiveKey}
  /\ wk' = [wk EXCEPT ![w] = [@ EXCEPT !.pc = nextStep(wk[w].pc), !.s3Calls = @ + 1,
                                       !.uploaded = TRUE]]
  /\ resp' = NoResp
  /\ UNCHANGED <<rec, created, queue, adm, cu, clock, ids, dl, viewed, calc, faults, mail>>

\* An absent size of a file record and an absent ContentLength of a
\* HeadObject response.
NoSize == -1
NoLength == -2

\* Line 101: files.reduce((acc, file) => acc + (file.size ?? 0), 0)
RECURSIVE SumSizes(_)
SumSizes(files) ==
  IF Len(files) = 0 THEN 0
  ELSE (IF Head(files).size = NoSize THEN 0 ELSE Head(files).size)
       + SumSizes(Tail(files))

\* The zip's byte length as the store reports it: the entries and an overhead.
ContentLength(files) == SumSizes(files) + 1

\* Line 101: head.ContentLength ?? <the sum of the sizes>
archiveSize(head, files) ==
  IF head # NoLength THEN head ELSE SumSizes(files)

\* createZipArchive, lines 94-101: HeadObject of the archive.
WorkerHeadObject(w) ==
  /\ wk[w].pc = "headObject"
  /\ wk' = [wk EXCEPT ![w] =
              IF wk[w].archiveKey \in s3
              THEN [@ EXCEPT !.pc = nextStep(wk[w].pc), !.s3Calls = @ + 1,
                             !.size = archiveSize(ContentLength(wk[w].files), wk[w].files)]
              ELSE Raise([@ EXCEPT !.s3Calls = @ + 1])]
  /\ resp' = NoResp
  /\ UNCHANGED <<rec, created, s3, queue, adm, cu, clock, ids, dl, viewed, calc, faults, mail>>

\* Lines 129-136: DeleteObjects of the originals (absent keys are tolerated).
WorkerDeleteObjects(w) ==
  /\ wk[w].pc = "deleteObjects"
  /\ s3' = s3 \ ObjectKeys(wk[w].files)
  /\ wk' = [wk EXCEPT ![w] = [@ EXCEPT !.pc = nextStep(wk[w].pc), !.s3Calls = @ + 1,
                                       !.deleted = TRUE]]
  /\ resp' = NoResp
  /\ UNCHANGED <<rec, created, queue, adm, cu, clock, ids, dl, viewed, calc, faults, mail>>

\* Lines 152-187: the success update, one UpdateCommand
\* SET status, completedAt, updatedAt [, files] REMOVE lastError.
CompletedUpdate_KeepsFiles(record, r, t) ==
  [ record EXCEPT
      !.status = "COMPLETED",
      !.completedAt = t,
      !.lastError = NoError,
      !.files = IF r.needUpdate THEN finalFiles(r) ELSE @ ]

CompletedUpdate_KeepsError(record, r, t) ==
  [ record EXCEPT
      !.status = "COMPLETED",
      !.completedAt = t,
      !.files = IF r.needUpdate \/ shouldCreateArchive(r.files) THEN finalFiles(r) ELSE @ ]

CompletedUpdate(record, r, t) ==
  [ record EXCEPT
      !.status = "COMPLETED",
      !.completedAt = t,
      !.lastError = NoError,
      !.files = IF r.needUpdate \/ shouldCreateArchive(r.files) THEN finalFiles(r) ELSE @ ]

WorkerUpdate(w) ==
  /\ wk[w].pc = "update"
  /\ rec' = CompletedUpdate(rec, wk[w], now)
  /\ wk' = [wk EXCEPT ![w] = [@ EXCEPT !.pc = "notify", !.dbWrites = @ + 1,
                                       !.after = Snapshot(rec')]]
  /\ resp' = NoResp
  /\ UNCHANGED <<created, s3, queue, adm, cu, clock, ids, dl, viewed, calc, faults, mail>>

\* Lines 203-225: the course of the submission is looked up for the emails.
WorkerCourseLookup(w) ==
  /\ wk[w].pc = "notify"
  /\ wk' = [wk EXCEPT ![w] = [@ EXCEPT !.pc = "send", !.after = NoSnapshot]]
  /\ resp' = NoResp
  /\ UNCHANGED <<rec, created, s3, queue, adm, cu, clock, ids, dl, viewed, calc, faults, mail>>

downloadResources_NoLinks(files) == <<>>

\* Lines 191-201: one link per final file, `${baseUrl}/downloads/
\* ${submissionId}/${file.downloadToken}` (the record has a downloadBaseUrl).
downloadResources(files) == TokenSeq(files)

\* The SendEmail calls of lines 248-316: to the student, when the record has
\* a studentEmail, and to the educators.
Recipients(submission) ==
  (IF submission.studentEmail # "none" THEN {"student"} ELSE {}) \cup {"educators"}

\* Lines 227-319: the completion emails are sent; then the handler returns
\* and the message is deleted.
WorkerNotify(w) ==
  /\ wk[w].pc = "send"
  /\ LET links == downloadResources(finalFiles(wk[w]))
     IN /\ wk' = [wk EXCEPT ![w] =
                    Finish([@ EXCEPT !.sent = @ + Cardinality(Recipients(rec)),
                                     !.links = links], "returned")]
        /\ mail' = [attempted |-> TRUE,
                    tokens |-> mail.tokens \cup {links[i] : i \in 1..Len(links)}]
  /\ queue' = Acknowledge
  /\ resp' = NoResp
  /\ UNCHANGED <<rec, created, s3, adm, cu, clock, ids, dl, viewed, calc, faults>>

\* markArchiveFailure, lines 333-359: one UpdateCommand
\* SET status = ARCHIVE_FAILED, lastError = reason, updatedAt.
markArchiveFailure_OneReason(record, reason) ==
  [record EXCEPT !.status = "ARCHIVE_FAILED", !.lastError = "Archive processing failed"]

markArchiveFailure(record, reason) ==
  [record EXCEPT !.status = "ARCHIVE_FAILED", !.lastError = reason]

\* Lines 82-86: no files; the failure is recorded and the handler goes on to
\* the next message, i.e. returns.
WorkerNoFiles(w) ==
  /\ wk[w].pc = "noFiles"
  /\ rec' = markArchiveFailure(rec, "No files available for archiving")
  /\ wk' = [wk EXCEPT ![w] =
              Finish([@ EXCEPT !.dbWrites = @ + 1, !.marks = @ + 1,
                               !.after = Snapshot(rec')], "returned")]
  /\ queue' = Acknowledge
  /\ resp' = NoResp
  /\ UNCHANGED <<created, s3, adm, cu, clock, ids, dl, viewed, calc, faults, mail>>

catchResult_Swallows(failedAt) == "returned"

\* Line 328: throw error.
catchResult(failedAt) == "threw"

\* Lines 320-329: the catch block; the failure is recorded and the error is
\* thrown again, so the message stays in the queue.
WorkerMarkFailure(w) ==
  /\ wk[w].pc = "markFailure"
  /\ rec' = markArchiveFailure(rec, "Archive processing failed")
  /\ wk' = [wk EXCEPT ![w] =
              Finish([@ EXCEPT !.dbWrites = @ + 1, !.marks = @ + 1,
                               !.after = Snapshot(rec')], catchResult(wk[w].failedAt))]
  /\ resp' = NoResp
  /\ UNCHANGED <<created, s3, queue, adm, cu, clock, ids, dl, viewed, calc, faults, mail>>

\* ------------------------------------------- failures of the collaborators
\* The record load (lines 63-68) raises: the catch block runs.
WorkerLoadFails(w) ==
  /\ wk[w].pc \in {"idle", "done"}
  /\ SlotFree(w)
  /\ queue.present
  /\ queue.receives < MaxReceiveCount
  /\ faults < MaxFaults
  /\ wk' = [wk EXCEPT ![w] =
              Raise([IdleWorker EXCEPT !.pc = "load", !.job = SubmissionId,
                                       !.branch = "load", !.faulted = TRUE])]
  /\ queue' = [queue EXCEPT !.receives = @ + 1]
  /\ faults' = faults + 1
  /\ resp' = NoResp
  /\ UNCHANGED <<rec, created, s3, adm, cu, clock, ids, dl, viewed, calc, mail>>

\* The awaited calls of the archive path and the success update.
PrimarySteps == {"getObject", "upload", "headObject", "deleteObjects", "update"}

\* The call the run is at raises, without effect on the store it was sent to.
WorkerStepFails(w) ==
  /\ wk[w].pc \in PrimarySteps
  /\ faults < MaxFaults
  /\ wk' = [wk EXCEPT ![w] =
              Raise([@ EXCEPT !.faulted = TRUE,
                              !.s3Calls = IF wk[w].pc = "update" THEN @ ELSE @ + 1])]
  /\ faults' = faults + 1
  /\ resp' = NoResp
  /\ UNCHANGED <<rec, created, s3, queue, adm, cu, clock, ids, dl, viewed, calc, mail>>

\* markArchiveFailure, lines 355-357: the failure write raises; the error is
\* logged and the catch block goes on to throw the original error.
WorkerMarkFailureFails(w) ==
  /\ wk[w].pc = "markFailure"
  /\ faults < MaxFaults
  /\ wk' = [wk EXCEPT ![w] =
              Finish([@ EXCEPT !.marks = @ + 1, !.faulted = TRUE],
                     catchResult(wk[w].failedAt))]
  /\ faults' = faults + 1
  /\ resp' = NoResp
  /\ UNCHANGED <<rec, created, s3, queue, adm, cu, clock, ids, dl, viewed, calc, mail>>

caught_Rethrows(r) == Raise(r)

\* Lines 222-224, 273-275 and 310-316: catch (error) { console.error(...) },
\* after which the run goes on as it would have.
caught(r) == r

\* The course lookup raises (lines 222-224): logged, the emails go on
\* without the course details.
WorkerCourseLookupFails(w) ==
  /\ wk[w].pc = "notify"
  /\ faults < MaxFaults
  /\ faults' = faults + 1
  /\ wk' = [wk EXCEPT ![w] = caught([@ EXCEPT !.pc = "send", !.after = NoSnapshot,
                                              !.faulted = TRUE])]
  /\ resp' = NoResp
  /\ UNCHANGED <<rec, created, s3, queue, adm, cu, clock, ids, dl, viewed, calc, mail>>

\* The SendEmail calls raise (lines 273-275 and 310-316): logged; the
\* handler returns and the message is deleted.
WorkerNotifyFails(w) ==
  /\ wk[w].pc = "send"
  /\ faults < MaxFaults
  /\ faults' = faults + 1
  /\ wk' = [wk EXCEPT ![w] = Finish([@ EXCEPT !.faulted = TRUE], "returned")]
  /\ mail' = [mail EXCEPT !.attempted = TRUE]
  /\ queue' = Acknowledge
  /\ resp' = NoResp
  /\ UNCHANGED <<rec, created, s3, adm, cu, clock, ids, dl, viewed, calc>>

\* The invocation dies where it is (the function's timeout, a crash): no
\* catch block runs and the message stays in the queue.
WorkerAbandon(w) ==
  /\ wk[w].pc \notin {"idle", "done"}
  /\ faults < MaxFaults
  /\ wk' = [wk EXCEPT ![w] = Finish([@ EXCEPT !.faulted = TRUE], "abandoned")]
  /\ faults' = faults + 1
  /\ resp' = NoResp
  /\ UNCHANGED <<rec, created, s3, queue, adm, cu, clock, ids, dl, viewed, calc, mail>>

\* ----------------------------------------------------------- admin delete
\* DELETE /admin/submissions/{submissionId}, lines 41-66: the record is read;
\* a record that has deletedAt is answered 204 at once.
DeleteLoad ==
  /\ adm.pc \in {"idle", "done"}
  /\ LET submission == GetItem(SubmissionId).item
         objectsToDelete == ObjectKeys(submission.files)
     IN adm' = [ pc |-> IF submission.deletedAt # NoTime THEN "done"
                        ELSE IF objectsToDelete # {} THEN "deleteObjects"
                        ELSE "update",
                 keys |-> IF submission.deletedAt # NoTime THEN {} ELSE objectsToDelete,
                 code |-> IF submission.deletedAt # NoTime THEN 204 ELSE 0 ]
  /\ resp' = NoResp
  /\ UNCHANGED <<rec, created, s3, queue, wk, cu, clock, ids, dl, viewed, calc, faults, mail>>

\* Lines 68-84: the objects the record listed are deleted.
DeleteObjects ==
  /\ adm.pc = "deleteObjects"
  /\ s3' = s3 \ adm.keys
  /\ adm' = [adm EXCEPT !.pc = "update"]
  /\ resp' = NoResp
  /\ UNCHANGED <<rec, created, queue, wk, cu, clock, ids, dl, viewed, calc, faults, mail>>

\* Lines 86-116: SET status = DELETED, deletedAt, deletedBy, updatedAt,
\* files = [] REMOVE lastError.
DeletedUpdate(record, t, actorEmail) ==
  [ record EXCEPT
      !.status = "DELETED",
      !.deletedAt = t,
      !.deletedBy = actorEmail,
      !.files = <<>>,
      !.lastError = NoError ]

DeleteUpdate ==
  /\ adm.pc = "update"
  /\ rec' = DeletedUpdate(rec, now, "admin")
  /\ adm' = [pc |-> "done", keys |-> {}, code |-> 204]
  /\ resp' = NoResp
  /\ UNCHANGED <<created, s3, queue, wk, cu, clock, ids, dl, viewed, calc, faults, mail>>

\* --------------------------------------------------------- admin reminder
\* POST /admin/submissions/{submissionId}/remind: refused for a deleted
\* record (410) and for one without files or links (409); otherwise the
\* educator is reminded and the reminder counters are updated.
CanRemind(submission) ==
  /\ submission.deletedAt = NoTime
  /\ Len(submission.files) > 0
  /\ \E i \in 1..Len(submission.files) : submission.files[i].downloadToken # NoToken

Remind ==
  /\ rec.reminderCount < MaxReminders
  /\ CanRemind(GetItem(SubmissionId).item)
  /\ rec' = [rec EXCEPT !.reminderCount = @ + 1]
  /\ resp' = NoResp
  /\ UNCHANGED <<created, s3, queue, wk, adm, cu, clock, ids, dl, viewed, calc, faults, mail>>

\* ---------------------------------------------------- download resolution
\* files.find((file) => file.downloadToken === token): the first match, 0
\* when there is none.
FindByToken(files, token) ==
  IF \E i \in 1..Len(files) : files[i].downloadToken = token
  THEN CHOOSE i \in 1..Len(files) :
         /\ files[i].downloadToken = token
         /\ \A j \in 1..(i - 1) : files[j].downloadToken # token
  ELSE 0

IsExpired_OnTheDay(expiresAt, t) == expiresAt = NoTime \/ expiresAt <= t

\* !expiresAt || Date.parse(expiresAt) < Date.now()
IsExpired(expiresAt, t) == expiresAt = NoTime \/ expiresAt < t

\* getSignedUrl(s3, GetObjectCommand{Key}, {expiresIn})
PresignedUrl(objectKey) == <<objectKey, DOWNLOAD_LINK_TTL_SECONDS>>

ResolveStatus_NoExpiry(got, token, t) ==
  IF ~got.found THEN 404
  ELSE IF FindByToken(got.item.files, token) = 0 THEN 404
  ELSE 302

\* GET /downloads/{submissionId}/{token}, lines 24-58 and 139-144.
ResolveStatus(got, token, t) ==
  IF ~got.found THEN 404
  ELSE IF FindByToken(got.item.files, token) = 0 THEN 404
  ELSE IF IsExpired(got.item.files[FindByToken(got.item.files, token)].expiresAt, t) THEN 410
  ELSE 302

getDownloadUrl(sid, token) ==
  LET got == GetItem(sid)
      status == ResolveStatus(got, token, now)
      m == FindByToken(got.item.files, token)
  IN [ status |-> status,
       location |-> IF status = 302 THEN PresignedUrl(got.item.files[m].objectKey)
                    ELSE <<>>,
       sid |-> sid, token |-> token, at |-> now,
       found |-> got.found,
       files |-> IF got.found THEN got.item.files ELSE <<>>,
       recStatus |-> IF got.found THEN got.item.status ELSE "none",
       objectExists |-> got.found /\ m # 0 /\ got.item.files[m].objectKey \in s3 ]

\* The requests tried: every token the record holds and one that no file of
\* it has, and one request for an unknown submission.
ResolveRequests ==
  {<<SubmissionId, t>> : t \in {ids.token + 1}
                               \cup ({rec.files[i].downloadToken : i \in 1..Len(rec.files)}
                                      \ {NoToken})}
    \cup {<<UnknownId, 1>>}

\* As for the worker: the second invocation starts only while the first runs.
ResolverFree(d) == d = "d1" \/ dl["d1"].pc # "idle"

\* Lines 61-64: isFirstAccess && studentEmail && SES_SOURCE_EMAIL (the
\* deployment sets the sender address).
tracksFirstAccess(item) ==
  item.firstAccessedAt = NoTime /\ item.studentEmail # "none"

\* Lines 13-64: the handler up to the decision on the first access.  The
\* response is fixed here; the handler returns it at once unless the first
\* access is to be recorded.
Resolve(d) ==
  /\ dl[d].pc = "idle"
  /\ ResolverFree(d)
  /\ \E request \in ResolveRequests :
       LET response == getDownloadUrl(request[1], request[2])
       IN IF response.status = 302 /\ tracksFirstAccess(GetItem(request[1]).item)
          THEN /\ dl' = [dl EXCEPT ![d] = [pc |-> "markAccess", response |-> response]]
               /\ resp' = NoResp
          ELSE /\ dl' = dl
               /\ resp' = response
  /\ UNCHANGED <<rec, created, s3, queue, wk, adm, cu, clock, ids, viewed, calc, faults, mail>>

\* Lines 68-86: SET firstAccessedAt = accessedAt, without a condition.
ResolveMarkAccess(d) ==
  /\ dl[d].pc = "markAccess"
  /\ rec' = [rec EXCEPT !.firstAccessedAt = now]
  /\ dl' = [dl EXCEPT ![d].pc = "lookup"]
  /\ resp' = NoResp
  /\ UNCHANGED <<created, s3, queue, wk, adm, cu, clock, ids, viewed, calc, faults, mail>>

\* Lines 88-107: the course is looked up for the notification.
ResolveCourseLookup(d) ==
  /\ dl[d].pc = "lookup"
  /\ dl' = [dl EXCEPT ![d].pc = "notify"]
  /\ resp' = NoResp
  /\ UNCHANGED <<rec, created, s3, queue, wk, adm, cu, clock, ids, viewed, calc, faults, mail>>

\* Lines 109-144: the "work viewed" email to the student; the handler
\* returns the redirect.
ResolveNotify(d) ==
  /\ dl[d].pc = "notify"
  /\ viewed' = viewed + 1
  /\ dl' = [dl EXCEPT ![d] = IdleResolver]
  /\ resp' = dl[d].response
  /\ UNCHANGED <<rec, created, s3, queue, wk, adm, cu, clock, ids, calc, faults, mail>>

\* Each of the three calls is in its own try/catch: when it raises, the
\* error is logged and the handler goes on.
ResolveMarkAccessFails(d) ==
  /\ dl[d].pc = "markAccess"
  /\ faults < MaxFaults
  /\ faults' = faults + 1
  /\ dl' = [dl EXCEPT ![d].pc = "lookup"]
  /\ resp' = NoResp
  /\ UNCHANGED <<rec, created, s3, queue, wk, adm, cu, clock, ids, viewed, calc, mail>>

ResolveCourseLookupFails(d) ==
  /\ dl[d].pc = "lookup"
  /\ faults < MaxFaults
  /\ faults' = faults + 1
  /\ dl' = [dl EXCEPT ![d].pc = "notify"]
  /\ resp' = NoResp
  /\ UNCHANGED <<rec, created, s3, queue, wk, adm, cu, clock, ids, viewed, calc, mail>>

ResolveNotifyFails(d) ==
  /\ dl[d].pc = "notify"
  /\ faults < MaxFaults
  /\ faults' = faults + 1
  /\ dl' = [dl EXCEPT ![d] = IdleResolver]
  /\ resp' = dl[d].response
  /\ UNCHANGED <<rec, created, s3, queue, wk, adm, cu, clock, ids, viewed, calc, mail>>

\* ------------------------------------------------------------------- Next
Next ==
  \/ Tick
  \/ CompleteMark
  \/ CompleteEnqueue
  \/ \E w \in Workers : WorkerReceive(w)
  \/ \E w \in Workers : WorkerGetObject(w)
  \/ \E w \in Workers : WorkerUpload(w)
  \/ \E w \in Workers : WorkerHeadObject(w)
  \/ \E w \in Workers : WorkerDeleteObjects(w)
  \/ \E w \in Workers : WorkerUpdate(w)
  \/ \E w \in Workers : WorkerCourseLookup(w)
  \/ \E w \in Workers : WorkerNotify(w)
  \/ \E w \in Workers : WorkerNoFiles(w)
  \/ \E w \in Workers : WorkerMarkFailure(w)
  \/ DeleteLoad
  \/ DeleteObjects
  \/ DeleteUpdate
  \/ Remind

Spec == Init /\ [][Next]_vars

\* The completion action and the deliveries of the job alone.
NextDeliveries ==
  \/ CompleteMark
  \/ CompleteEnqueue
  \/ \E w \in Workers : WorkerReceive(w)
  \/ \E w \in Workers : WorkerGetObject(w)
  \/ \E w \in Workers : WorkerUpload(w)
  \/ \E w \in Workers : WorkerHeadObject(w)
  \/ \E w \in Workers : WorkerDeleteObjects(w)
  \/ \E w \in Workers : WorkerUpdate(w)
  \/ \E w \in Workers : WorkerCourseLookup(w)
  \/ \E w \in Workers : WorkerNotify(w)
  \/ \E w \in Workers : WorkerMarkFailure(w)

SpecDeliveries == Init /\ [][NextDeliveries]_vars

\* The deliveries of the job with failing collaborators.
WorkerSteps(w) ==
  \/ WorkerReceive(w)
  \/ WorkerGetObject(w)
  \/ WorkerUpload(w)
  \/ WorkerHeadObject(w)
  \/ WorkerDeleteObjects(w)
  \/ WorkerUpdate(w)
  \/ WorkerCourseLookup(w)
  \/ WorkerNotify(w)
  \/ WorkerMarkFailure(w)

FaultSteps(w) ==
  \/ WorkerLoadFails(w)
  \/ WorkerStepFails(w)
  \/ WorkerMarkFailureFails(w)
  \/ WorkerCourseLookupFails(w)
  \/ WorkerNotifyFails(w)
  \/ WorkerAbandon(w)

NextFaults ==
  \/ CompleteMark
  \/ CompleteEnqueue
  \/ CompleteEnqueueFails
  \/ \E w \in Workers : WorkerSteps(w)
  \/ \E w \in Workers : FaultSteps(w)

SpecFaults == Init /\ [][NextFaults]_vars

\* One delivery at a time: a redelivery starts after the attempt before it
\* has ended.
NextRetry ==
  \/ CompleteMark
  \/ CompleteEnqueue
  \/ WorkerSteps("w1")
  \/ FaultSteps("w1")

SpecRetry == Init /\ [][NextRetry]_vars

\* The download resolutions of one client, concurrent with the deliveries of
\* the job.  A resolution writes firstAccessedAt only, which no other handler
\* reads or writes.
NextDownloads ==
  \/ Tick
  \/ NextDeliveries
  \/ Resolve("d1")
  \/ ResolveMarkAccess("d1")
  \/ ResolveCourseLookup("d1")
  \/ ResolveNotify("d1")

SpecDownloads == Init /\ [][NextDownloads]_vars

\* One delivery of the job, without faults.
OneDelivery ==
  \/ CompleteMark
  \/ CompleteEnqueue
  \/ WorkerReceive("w1")
  \/ WorkerGetObject("w1")
  \/ WorkerUpload("w1")
  \/ WorkerHeadObject("w1")
  \/ WorkerDeleteObjects("w1")
  \/ WorkerUpdate("w1")
  \/ WorkerCourseLookup("w1")
  \/ WorkerNotify("w1")

\* Download resolutions concurrent with each other.
NextConcurrentDownloads ==
  \/ OneDelivery
  \/ \E d \in Resolvers : Resolve(d)
  \/ \E d \in Resolvers : ResolveMarkAccess(d)
  \/ \E d \in Resolvers : ResolveCourseLookup(d)
  \/ \E d \in Resolvers : ResolveNotify(d)

SpecConcurrentDownloads == Init /\ [][NextConcurrentDownloads]_vars

\* The deliveries of the job, and of a job that names no record.
NextAbsent ==
  \/ NextDeliveries
  \/ StrayJob

SpecAbsent == Init /\ [][NextAbsent]_vars

\* The side effects that may fail without failing the operation: the
\* worker's course lookup and emails after its update, and the resolution's
\* first-access bookkeeping.
NextSideEffects ==
  \/ OneDelivery
  \/ WorkerCourseLookupFails("w1")
  \/ WorkerNotifyFails("w1")
  \/ Resolve("d1")
  \/ ResolveMarkAccess("d1")
  \/ ResolveCourseLookup("d1")
  \/ ResolveNotify("d1")
  \/ ResolveMarkAccessFails("d1")
  \/ ResolveCourseLookupFails("d1")
  \/ ResolveNotifyFails("d1")

SpecSideEffects == Init /\ [][NextSideEffects]_vars

\* ------------------------------------------- createZipArchive on its own
\* File names are strings over NameChars, of up to MaxNameLen characters.
MaxNameLen == 2
MaxZipFiles == 2
NameChars == {"a", "/"}
NoName == <<"null">>
SizeValues == {NoSize, 0, 1}

Names == UNION {[1..k -> NameChars] : k \in 0..MaxNameLen}

\* createUploadSession: a record has a fileName (`upload-${index}` by
\* default), the size the client declared or none, and an objectKey made of
\* the base key and the name.
ZipInput(name, size) ==
  [ fileName |-> name, size |-> size, objectKey |-> <<"k", "/">> \o name ]

ZipInputs ==
  UNION { [1..n -> {ZipInput(name, size) : name \in Names, size \in SizeValues}] :
            n \in 1..MaxZipFiles }

\* String.prototype.includes for a single character.
includes(str, ch) == \E i \in 1..Len(str) : str[i] = ch

\* file.fileName ?? file.objectKey
originalName(file) == IF file.fileName = NoName THEN file.objectKey ELSE file.fileName

hasNestedFolders_Never(files) == FALSE

\* Line 72.
hasNestedFolders(files) ==
  \E i \in 1..Len(files) : includes(originalName(files[i]), "/")

\* Lines 73 and 83-84: prefix ? `${prefix}/${originalName}` : originalName,
\* where prefix is the submission id or undefined.
entryName(submissionId, files, file) ==
  IF hasNestedFolders(files) /\ submissionId # <<>>
  THEN submissionId \o <<"/">> \o originalName(file)
  ELSE originalName(file)

InitZip ==
  \E files \in ZipInputs, head \in {NoLength, 0} :
    /\ calc = [ fn |-> "createZipArchive", pc |-> "append",
                submissionId |-> <<"s">>, files |-> files,
                head |-> IF head = NoLength THEN NoLength ELSE ContentLength(files),
                entries |-> <<>>, size |-> NoSize ]
    /\ rec = [ status |-> "PENDING_ARCHIVE", files |-> <<>>, createdAt |-> 0,
               completedAt |-> NoTime, lastError |-> NoError, deletedAt |-> NoTime,
               deletedBy |-> "none", reminderCount |-> 0, studentEmail |-> "none",
               firstAccessedAt |-> NoTime, lastAccessedAt |-> NoTime ]
    /\ created = <<>>
    /\ s3 = {}
    /\ queue = [present |-> FALSE, receives |-> 0, stray |-> "none"]
    /\ wk = [w \in Workers |-> IdleWorker]
    /\ adm = [pc |-> "idle", keys |-> {}, code |-> 0]
    /\ cu = "idle"
    /\ clock = [now |-> 0, ticks |-> 0]
    /\ ids = [token |-> MaxFiles, stamp |-> 0]
    /\ resp = NoResp
    /\ dl = [d \in Resolvers |-> IdleResolver]
    /\ viewed = 0
    /\ faults = 0
    /\ mail = NoMail

\* Lines 75-88: one entry per file is appended to the archive.
ZipAppend ==
  /\ calc.fn = "createZipArchive"
  /\ calc.pc = "append"
  /\ calc' = [calc EXCEPT
       !.entries = [i \in 1..Len(calc.files) |->
                      entryName(calc.submissionId, calc.files, calc.files[i])],
       !.pc = "head"]
  /\ UNCHANGED <<rec, created, s3, queue, wk, adm, cu, clock, ids, resp, dl, viewed, faults, mail>>

\* Lines 94-101: the size the function returns.
ZipHead ==
  /\ calc.fn = "createZipArchive"
  /\ calc.pc = "head"
  /\ calc' = [calc EXCEPT !.size = archiveSize(calc.head, calc.files), !.pc = "done"]
  /\ UNCHANGED <<rec, created, s3, queue, wk, adm, cu, clock, ids, resp, dl, viewed, faults, mail>>

NextZip == ZipAppend \/ ZipHead

SpecZip == InitZip /\ [][NextZip]_vars

\* ------------------------------------------------- the derived dates
\* A timestamp is a day number here too; day 0 is 1 January of FirstYear.
\* Date's UTC calendar fields are modelled for the day of the month.
FirstYear == 2024
MaxDay == 800
ARCHIVE_TRANSITION_DAYS == 30
DELETION_DAYS == 180

IsLeapYear(y) == (y % 4 = 0 /\ y % 100 # 0) \/ y % 400 = 0

DaysInMonth(y, m) ==
  IF m = 2 THEN (IF IsLeapYear(y) THEN 29 ELSE 28)
  ELSE IF m \in {4, 6, 9, 11} THEN 30
  ELSE 31

\* A day of the month past the end of the month runs into the next months.
RECURSIVE Normalize(_, _, _)
Normalize(y, m, d) ==
  IF d <= DaysInMonth(y, m) THEN [year |-> y, month |-> m, date |-> d]
  ELSE IF m = 12 THEN Normalize(y + 1, 1, d - DaysInMonth(y, m))
  ELSE Normalize(y, m + 1, d - DaysInMonth(y, m))

\* new Date(ms): the calendar date of a day number.
NewDate(day) == Normalize(FirstYear, 1, day + 1)

\* Date's time value: the days from day 0 to the calendar date.
RECURSIVE DaysBefore(_, _)
DaysBefore(y, m) ==
  IF y = FirstYear /\ m = 1 THEN 0
  ELSE IF m = 1 THEN DaysBefore(y - 1, 12) + DaysInMonth(y - 1, 12)
  ELSE DaysBefore(y, m - 1) + DaysInMonth(y, m - 1)

getTime(d) == DaysBefore(d.year, d.month) + (d.date - 1)

getUTCDate(d) == d.date
setUTCDate(d, dayOfMonth) == Normalize(d.year, d.month, dayOfMonth)

\* record.completedAt ?? record.createdAt
baseIso(record) ==
  IF record.completedAt # NoTime THEN record.completedAt ELSE record.createdAt

calculateArchiveTransitionAt(record) ==
  LET transition == NewDate(baseIso(record))
  IN getTime(setUTCDate(transition, getUTCDate(transition) + ARCHIVE_TRANSITION_DAYS))

calculateDeletionAt_SixMonths(record) ==
  LET deletion == NewDate(baseIso(record))
  IN getTime(Normalize(deletion.year + (deletion.month + 5) \div 12,
                       ((deletion.month + 5) % 12) + 1, deletion.date))

calculateDeletionAt(record) ==
  LET deletion == NewDate(baseIso(record))
  IN getTime(setUTCDate(deletion, getUTCDate(deletion) + DELETION_DAYS))

\* A record as the handlers leave it: created on some day, completed on a
\* later day or not yet.
InitDates ==
  \E createdAt \in 0..MaxDay, completed \in {NoTime, 0, 1, 40} :
    /\ rec = [ status |-> IF completed = NoTime THEN "PENDING_ARCHIVE" ELSE "COMPLETED",
               files |-> <<>>, createdAt |-> createdAt,
               completedAt |-> IF completed = NoTime THEN NoTime ELSE createdAt + completed,
               lastError |-> NoError, deletedAt |-> NoTime,
               deletedBy |-> "none", reminderCount |-> 0, studentEmail |-> "none",
               firstAccessedAt |-> NoTime, lastAccessedAt |-> NoTime ]
    /\ calc = NoCalc
    /\ created = <<>>
    /\ s3 = {}
    /\ queue = [present |-> FALSE, receives |-> 0, stray |-> "none"]
    /\ wk = [w \in Workers |-> IdleWorker]
    /\ adm = [pc |-> "idle", keys |-> {}, code |-> 0]
    /\ cu = "idle"
    /\ clock = [now |-> 0, ticks |-> 0]
    /\ ids = [token |-> MaxFiles, stamp |-> 0]
    /\ resp = NoResp
    /\ dl = [d \in Resolvers |-> IdleResolver]
    /\ viewed = 0
    /\ faults = 0
    /\ mail = NoMail

\* GET /admin/submissions: the record is read and the two dates are put in
\* the response; nothing is written.
ListSubmissions ==
  /\ calc = NoCalc
  /\ rec.deletedAt = NoTime
  /\ calc' = [ fn |-> "listSubmissions",
               archiveTransitionAt |-> calculateArchiveTransitionAt(rec),
               deletionAt |-> calculateDeletionAt(rec) ]
  /\ UNCHANGED <<rec, created, s3, queue, wk, adm, cu, clock, ids, resp, dl, viewed, faults, mail>>

NextDates == ListSubmissions

SpecDates == InitDates /\ [][NextDates]_vars

\* ================================================================ claims

\* C1: a job processed for a submission whose status is already COMPLETED
\* makes no record-store write, no object-store call and sends no
\* notification, and the handler returns normally (it does not throw).
C1_CompletedJobIsNoOp ==
  \A w \in Workers :
    (wk[w].pc = "done" /\ wk[w].seen = "COMPLETED") =>
      /\ wk[w].dbWrites = 0
      /\ wk[w].s3Calls = 0
      /\ wk[w].sent = 0
      /\ wk[w].result = "returned"

\* A redelivery has found the submission COMPLETED and has ended.
C1_Witness ==
  \E w \in Workers : wk[w].pc = "done" /\ wk[w].seen = "COMPLETED"

\* C2: once the status is COMPLETED no step moves it to PENDING,
\* PENDING_ARCHIVE or ARCHIVE_FAILED, whatever the interleaving of the
\* deliveries of the job; only DELETED may follow COMPLETED.
C2_NoBackwardFromCompleted ==
  [][rec.status = "COMPLETED" => rec'.status \in {"COMPLETED", "DELETED"}]_vars

\* C3: DELETED is absorbing: once the status is DELETED no step changes it
\* or makes `files` non-empty.
C3_DeletedIsAbsorbing ==
  [][rec.status = "DELETED" => (rec'.status = "DELETED" /\ rec'.files = <<>>)]_vars

\* The record of the archive as a run that archived must have written it.
IsArchiveOf(file, r) ==
  /\ file.fileName = ZipName(SubmissionId)
  /\ file.contentType = "application/zip"
  /\ file.objectKey = r.archiveKey
  /\ file.objectKey.kind = "archive"
  /\ r.uploaded
  /\ file.downloadToken # NoToken
  /\ \A i \in 1..Len(r.stored) : file.downloadToken # r.stored[i].downloadToken
  /\ \A i \in 1..Len(r.files) : file.downloadToken # r.files[i].downloadToken
  /\ file.expiresAt = now + DEFAULT_EXPIRY_MS

\* C4: right after the success update of a run that loaded N > 1 files, the
\* record is COMPLETED and `files` is exactly one record: named
\* {submissionId}.zip, of type application/zip, whose objectKey is the
\* archive this run uploaded and whose token is new (no loaded or lazily
\* assigned token) with the 28-day default expiry.
C4_MultiFileEndsWithOneZip ==
  \A w \in Workers :
    (wk[w].pc = "notify" /\ Len(wk[w].stored) > 1) =>
      /\ wk[w].after.status = "COMPLETED"
      /\ Len(wk[w].after.files) = 1
      /\ IsArchiveOf(wk[w].after.files[1], wk[w])

\* A run on two or more files has made its success update.
C4_Witness ==
  \E w \in Workers :
    /\ wk[w].pc = "notify"
    /\ Len(wk[w].stored) > 1
    /\ wk[w].after.status = "COMPLETED"

\* C5: a run that loaded exactly one file reaches its success update without
\* any object-store call; right after the update the record is COMPLETED and
\* (the record not having been deleted by the admin meanwhile) `files` is
\* that one record, same objectKey, with a downloadToken and an expiresAt.
C5_SingleFileSkipsZip ==
  \A w \in Workers :
    (wk[w].pc = "notify" /\ Len(wk[w].stored) = 1) =>
      /\ wk[w].s3Calls = 0
      /\ ~wk[w].uploaded
      /\ wk[w].after.status = "COMPLETED"
      /\ wk[w].after.deletedAt = NoTime =>
           /\ Len(wk[w].after.files) = 1
           /\ wk[w].after.files[1].objectKey = wk[w].stored[1].objectKey
           /\ wk[w].after.files[1].downloadToken # NoToken
           /\ wk[w].after.files[1].expiresAt # NoTime

\* A run on one file that had no token has made its success update.
C5_Witness ==
  \E w \in Workers :
    /\ wk[w].pc = "notify"
    /\ Len(wk[w].stored) = 1
    /\ wk[w].stored[1].downloadToken = NoToken
    /\ wk[w].after.status = "COMPLETED"
    /\ wk[w].after.deletedAt = NoTime

\* C6: a run that loaded an empty `files` list ends with the record
\* ARCHIVE_FAILED and lastError "No files available for archiving", without
\* any object-store call, and returns (no throw): the message is deleted.
C6_NoFilesMarksFailure ==
  \A w \in Workers :
    (wk[w].pc = "done" /\ wk[w].branch = "noFiles") =>
      /\ wk[w].after.status = "ARCHIVE_FAILED"
      /\ wk[w].after.lastError = "No files available for archiving"
      /\ wk[w].s3Calls = 0
      /\ wk[w].result = "returned"
      /\ ~queue.present

\* A run has found the file list empty and has ended.
C6_Witness ==
  \E w \in Workers : wk[w].pc = "done" /\ wk[w].branch = "noFiles"

IsZipRecord(file) ==
  /\ file.fileName = ZipName(SubmissionId)
  /\ file.contentType = "application/zip"
  /\ file.objectKey.kind = "archive"

\* C7: while the record is not deleted (no deletedAt), `files` lists exactly
\* the object keys the record was created with, in order, or is one zip
\* record; never originals together with an archive, never two archives.
C7_OriginalsOrOneZip ==
  rec.deletedAt = NoTime =>
    \/ KeySeq(rec.files) = created
    \/ Len(rec.files) = 1 /\ IsZipRecord(rec.files[1])

\* After a second delivery the record of a multi-file submission holds one zip.
C7_Witness ==
  /\ rec.deletedAt = NoTime
  /\ Len(created) > 1
  /\ Len(rec.files) = 1
  /\ IsZipRecord(rec.files[1])
  /\ queue.receives >= 2

NoSharedToken(files) ==
  \A i, j \in 1..Len(files) :
    (i # j /\ files[i].downloadToken # NoToken) =>
      files[i].downloadToken # files[j].downloadToken

\* C8: no two entries of the record's `files` share a downloadToken, and
\* neither do two entries of the list a run has given tokens to or of the
\* list it is about to write.
C8_TokensUnique ==
  /\ NoSharedToken(rec.files)
  /\ \A w \in Workers :
       wk[w].pc \notin {"idle", "done"} =>
         /\ NoSharedToken(wk[w].files)
         /\ NoSharedToken(finalFiles(wk[w]))

\* A run has given new tokens to two files that had none.
C8_Witness ==
  \E w \in Workers :
    /\ wk[w].pc \notin {"idle", "done"}
    /\ Len(wk[w].stored) > 1
    /\ \A i \in 1..Len(wk[w].stored) : wk[w].stored[i].downloadToken = NoToken
    /\ \A i \in 1..Len(wk[w].files) : wk[w].files[i].downloadToken # NoToken

\* The entries of the file list a resolution read that carry its token.
Matches(r) == {i \in 1..Len(r.files) : r.files[i].downloadToken = r.token}
ExpiredMatch(r) ==
  \E i \in Matches(r) : r.files[i].expiresAt # NoTime /\ r.files[i].expiresAt < r.at

\* C9: a resolution answers 404 when the submission is unknown or no entry
\* has the token, 410 when an entry has it and its expiresAt is earlier than
\* now, and otherwise 302 with the retrieval URL of that entry's objectKey.
C9_ResolutionStatus ==
  resp.status # 0 =>
    /\ resp.status \in {302, 404, 410}
    /\ resp.status = 404 <=> (~resp.found \/ Matches(resp) = {})
    /\ resp.status = 410 <=> (resp.found /\ ExpiredMatch(resp))
    /\ resp.status = 302 =>
         \E i \in Matches(resp) :
           resp.location = <<resp.files[i].objectKey, DOWNLOAD_LINK_TTL_SECONDS>>
    /\ resp.status # 302 => resp.location = <<>>

\* A token is resolved 29 days after it was given its 28-day expiry: 410.
C9_Witness ==
  /\ resp.status = 410
  /\ \E i \in Matches(resp) :
       resp.at = (resp.files[i].expiresAt - DEFAULT_EXPIRY_MS) + 29

\* C10: a resolution of a token whose expiresAt has passed never answers
\* with a redirect or a retrieval URL, whatever the status of the record and
\* whether or not the object is still in the store.
C10_ExpiryIsAbsolute ==
  (resp.status # 0 /\ resp.found /\ ExpiredMatch(resp)) =>
    resp.status # 302 /\ resp.location = <<>>

\* An expired token of a COMPLETED submission whose object still exists.
C10_Witness ==
  /\ resp.status = 410
  /\ ExpiredMatch(resp)
  /\ resp.recStatus = "COMPLETED"
  /\ resp.objectExists

\* C11: the "work viewed" notification is sent at most once for a
\* submission, whatever the sequence or interleaving of the successful
\* resolutions of its tokens.
C11_ViewedNotificationOnce == viewed <= 1

\* C12: when a resolution has answered 302 and its handler has returned, the
\* record's lastAccessedAt is the time of that resolution.
C12_LastAccessedAtUpdated ==
  (resp.status = 302 /\ \A d \in Resolvers : dl[d].pc = "idle") =>
    rec.lastAccessedAt = resp.at

\* C13: every entry of the archive is named submissionId/<file name> when
\* some file name of the submission contains "/", and every entry is named
\* by the bare file name when none does.
C13_EntryNamePrefix ==
  (calc.fn = "createZipArchive" /\ calc.pc # "append") =>
    LET nested == \E i \in 1..Len(calc.files) :
                    \E k \in 1..Len(calc.files[i].fileName) :
                      calc.files[i].fileName[k] = "/"
    IN /\ Len(calc.entries) = Len(calc.files)
       /\ \A i \in 1..Len(calc.files) :
            calc.entries[i] =
              IF nested THEN calc.submissionId \o <<"/">> \o calc.files[i].fileName
              ELSE calc.files[i].fileName

\* Two files, one in a folder and one not: both entries carry the prefix.
C13_Witness ==
  /\ calc.fn = "createZipArchive"
  /\ calc.pc = "done"
  /\ Len(calc.files) = 2
  /\ calc.files[1].fileName = <<"a", "/">>
  /\ calc.files[2].fileName = <<"a">>
  /\ calc.entries[2] = <<"s", "/", "a">>

\* C14: the size returned for the archive is the ContentLength read back,
\* or the sum of the files' sizes when the store reports none, and it is
\* not zero when there are files.
C14_ArchiveSize ==
  (calc.fn = "createZipArchive" /\ calc.pc = "done" /\ Len(calc.files) > 0) =>
    /\ calc.head # NoLength => calc.size = calc.head
    /\ calc.head = NoLength => calc.size = SumSizes(calc.files)
    /\ calc.size # 0

\* C15: the update that ends a successful admin delete leaves the record
\* DELETED with no files and with deletedAt and deletedBy set, the objects
\* of the files it read are gone from the store, and every field other than
\* status, files, deletedAt, deletedBy (and updatedAt) keeps its value.
C15_DeleteFrame ==
  [][(adm.pc = "update" /\ adm'.pc = "done") =>
       /\ rec'.status = "DELETED"
       /\ rec'.files = <<>>
       /\ rec'.deletedAt = now
       /\ rec'.deletedBy # "none"
       /\ adm.keys \cap s3' = {}
       /\ \A f \in DOMAIN rec \ {"status", "files", "deletedAt", "deletedBy"} :
            rec'[f] = rec[f]]_vars

C18_FailureIsRecordedAndRethrown ==
  \A w \in Workers :
    (wk[w].pc = "done" /\ wk[w].failedAt # "none" /\ wk[w].result # "abandoned") =>
      /\ wk[w].result = "threw"
      /\ wk[w].marks = 1
      /\ wk[w].after # NoSnapshot =>
           wk[w].after.status = "ARCHIVE_FAILED" /\ wk[w].after.lastError # NoError

\* The success update raised and the failure write raised too: the run threw.
C18_Witness ==
  \E w \in Workers :
    /\ wk[w].pc = "done"
    /\ wk[w].failedAt = "update"
    /\ wk[w].after = NoSnapshot
    /\ wk[w].marks = 1
    /\ wk[w].result = "threw"

\* C19: a run in which reading an original, the upload or the size
\* read-back raised has not issued the deletion of the originals.
C19_DeleteAfterConfirmedUpload ==
  \A w \in Workers :
    wk[w].failedAt \in {"getObject", "upload", "headObject"} => ~wk[w].deleted

\* The size read-back of an uploaded archive has raised.
C19_Witness ==
  \E w \in Workers :
    /\ wk[w].failedAt = "headObject"
    /\ wk[w].faulted
    /\ ObjectKeys(rec.files) \subseteq s3
    /\ Len(rec.files) > 1

\* C20: a delivery that starts after the attempt before it has ended, and
\* during which no collaborator fails, ends by returning with the record
\* COMPLETED.
C20_RedeliveryCompletes ==
  (wk["w1"].pc = "done" /\ ~wk["w1"].faulted) =>
    wk["w1"].result = "returned" /\ rec.status = "COMPLETED"

\* C17: the archiveTransitionAt and the deletionAt of a listed submission
\* are its completedAt, or its createdAt when it has none, plus 30 and plus
\* 180 days, and the record has no such fields.
C17_DerivedDates ==
  /\ {"archiveTransitionAt", "deletionAt"} \cap DOMAIN rec = {}
  /\ calc.fn = "listSubmissions" =>
       LET base == IF rec.completedAt # NoTime THEN rec.completedAt ELSE rec.createdAt
       IN /\ calc.archiveTransitionAt = base + 30
          /\ calc.deletionAt = base + 180

\* A submission completed on 31 December of a leap year, 40 days after it
\* was created, has been listed.
C17_Witness ==
  /\ calc.fn = "listSubmissions"
  /\ rec.completedAt = 365
  /\ rec.createdAt = 325
  /\ calc.deletionAt = 545

\* C21: while the record is COMPLETED and not deleted, every objectKey of
\* its `files` is the key of an object in the store.
C21_CompletedFilesExist ==
  (rec.status = "COMPLETED" /\ rec.deletedAt = NoTime) =>
    ObjectKeys(rec.files) \subseteq s3

\* The list a run carries agrees with the list it loaded wherever the loaded
\* file had a value, and has a value everywhere.
KeepsStoredValues(r) ==
  /\ Len(r.files) = Len(r.stored)
  /\ \A i \in 1..Len(r.stored) :
       /\ r.files[i].objectKey = r.stored[i].objectKey
       /\ r.files[i].downloadToken # NoToken
       /\ r.files[i].expiresAt # NoTime
       /\ r.stored[i].downloadToken # NoToken =>
            r.files[i].downloadToken = r.stored[i].downloadToken
       /\ r.stored[i].expiresAt # NoTime =>
            r.files[i].expiresAt = r.stored[i].expiresAt

\* C22: through the runs and retries of the job, a run carries the token
\* and the expiry each file had in the record it loaded and assigns one only
\* where the file had none; its success update changes `files` only when it
\* assigned a value or made an archive, and a file it loaded with a token or
\* an expiry has that same value in the record after the update.
C22_StoredCredentialsKept ==
  [][\A w \in Workers :
       /\ (wk'[w].pc \notin {"idle", "done"} /\ wk'[w].failedAt # "load"
             /\ wk'[w].branch # "noFiles") =>
            KeepsStoredValues(wk'[w])
       /\ (wk[w].pc = "update" /\ wk'[w].pc = "notify") =>
            /\ rec'.files # rec.files =>
                 \/ wk[w].uploaded
                 \/ \E i \in 1..Len(wk[w].stored) :
                      \/ wk[w].stored[i].downloadToken = NoToken
                      \/ wk[w].stored[i].expiresAt = NoTime
            /\ \A i \in 1..Len(wk[w].stored), j \in 1..Len(rec'.files) :
                 wk[w].stored[i].objectKey = rec'.files[j].objectKey =>
                   /\ wk[w].stored[i].downloadToken # NoToken =>
                        rec'.files[j].downloadToken = wk[w].stored[i].downloadToken
                   /\ wk[w].stored[i].expiresAt # NoTime =>
                        rec'.files[j].expiresAt = wk[w].stored[i].expiresAt]_vars

\* A redelivery after a failed attempt has completed a one-file submission
\* whose file had its token: the record's list is the one it was created with.
C22_Witness ==
  /\ wk["w1"].pc = "notify"
  /\ wk["w2"].pc = "idle"
  /\ faults >= 1
  /\ queue.receives >= 2
  /\ Len(wk["w1"].stored) = 1
  /\ wk["w1"].stored[1].downloadToken # NoToken
  /\ rec.files = wk["w1"].stored

\* C23: while the record is not deleted, every token that was put into a
\* completion email is the downloadToken of a file of the record's `files`,
\* whatever deliveries of the job ran, one after another or concurrently.
C23_EmailedTokensStayValid ==
  rec.deletedAt = NoTime =>
    mail.tokens \subseteq {rec.files[i].downloadToken : i \in 1..Len(rec.files)}

\* C24: when an administrator's delete has been interleaved with a run of
\* the job, then once the record is DELETED and the run and the delete have
\* finished, the store holds no object of the submission, original or
\* archive.
C24_DeletedLeavesNoObject ==
  ( /\ rec.status = "DELETED"
    /\ adm.pc \in {"idle", "done"}
    /\ \A w \in Workers : wk[w].pc \in {"idle", "done"} ) =>
    s3 = {}

\* C25: a failure of a side effect never changes the primary outcome.  When
\* the worker's course lookup or its notification send fails after the
\* record was set to COMPLETED, the record is left as it is and the run goes
\* on and returns normally; when the resolution's firstAccessedAt update, its
\* course lookup or its "work viewed" send fails, the resolution goes on and
\* returns the 302 redirect it had prepared.
C25_SideEffectFailuresAreHarmless ==
  [][faults' > faults =>
       /\ Snapshot(rec') = Snapshot(rec)
       /\ \A w \in Workers :
            wk'[w] # wk[w] =>
              /\ rec'.status = "COMPLETED"
              /\ \/ wk[w].pc = "notify" /\ wk'[w].pc = "send"
                 \/ /\ wk[w].pc = "send"
                    /\ wk'[w].pc = "done"
                    /\ wk'[w].result = "returned"
                    /\ wk'[w].failedAt = "none"
                    /\ ~queue'.present
       /\ \A d \in Resolvers :
            dl'[d] # dl[d] =>
              /\ dl[d].response.status = 302
              /\ \/ dl'[d].pc \in {"lookup", "notify"} /\ dl'[d].response = dl[d].response
                 \/ dl'[d].pc = "idle" /\ resp' = dl[d].response]_vars

\* A run whose emails could not be sent has returned with the record
\* COMPLETED, and a first resolution whose firstAccessedAt update failed has
\* answered 302.
C25_Witness ==
  /\ wk["w1"].pc = "done"
  /\ wk["w1"].faulted
  /\ wk["w1"].result = "returned"
  /\ wk["w1"].sent = 0
  /\ rec.status = "COMPLETED"
  /\ faults = 2
  /\ rec.studentEmail # "none"
  /\ rec.firstAccessedAt = NoTime
  /\ resp.status = 302

\* C26: a submission that has reached COMPLETED has had its completion
\* notification attempted once its job has left the queue and no run of it
\* is in progress, also when a run was cut off between its update and its
\* send and the job was delivered again.
C26_NotificationAttempted ==
  ( /\ rec.status = "COMPLETED"
    /\ ~queue.present
    /\ \A w \in Workers : wk[w].pc \in {"idle", "done"} ) =>
    mail.attempted

\* C27: the success update of a run is one write to the record that sets
\* status COMPLETED and completedAt to the current time, removes lastError,
\* replaces `files` exactly when the run changed the file list (it assigned a
\* token or an expiry, or made an archive) and touches nothing else; right
\* after it the record is COMPLETED, has a completedAt and has no lastError.
C27_SuccessUpdateIsOneWrite ==
  [][\A w \in Workers :
       (wk[w].pc = "update" /\ wk'[w].pc = "notify") =>
         LET listChanged ==
               \/ wk[w].uploaded
               \/ \E i \in 1..Len(wk[w].stored) :
                    \/ wk[w].stored[i].downloadToken = NoToken
                    \/ wk[w].stored[i].expiresAt = NoTime
         IN /\ wk'[w].dbWrites = wk[w].dbWrites + 1
            /\ rec' = [rec EXCEPT !.status = "COMPLETED",
                                  !.completedAt = now,
                                  !.lastError = NoError,
                                  !.files = rec'.files]
            /\ rec'.files = IF listChanged THEN finalFiles(wk[w]) ELSE rec.files
            /\ wk'[w].after.status = "COMPLETED"
            /\ wk'[w].after.completedAt # NoTime
            /\ wk'[w].after.lastError = NoError]_vars

\* A redelivery has made its success update on a record that an earlier,
\* failed attempt had left ARCHIVE_FAILED with a lastError.
C27_Witness ==
  \E w \in Workers :
    /\ wk[w].pc = "notify"
    /\ wk[w].seen = "ARCHIVE_FAILED"
    /\ wk[w].after.status = "COMPLETED"
    /\ wk[w].after.lastError = NoError
    /\ rec.status = "COMPLETED"
    /\ rec.lastError = NoError

\* C28: completion emails are sent only by a run whose own COMPLETED update
\* has succeeded, and they carry exactly one link per record of that run's
\* final file list (the archive record when it made an archive, the files
\* with their tokens otherwise), each with that record's token; a run that
\* failed before or during its update sends none.
C28_EmailsFollowTheUpdate ==
  [][\A w \in Workers :
       /\ (wk'[w].sent > wk[w].sent
             \/ (wk'[w].links # wk[w].links /\ wk'[w].links # <<>>)) =>
            LET expected ==
                  IF wk[w].uploaded
                  THEN <<wk[w].archiveToken>>
                  ELSE [k \in 1..Len(wk[w].files) |-> wk[w].files[k].downloadToken]
            IN /\ wk[w].pc = "send"
               /\ wk[w].failedAt = "none"
               /\ wk[w].dbWrites = 1
               /\ wk[w].marks = 0
               /\ wk'[w].links = expected
               /\ \A k \in 1..Len(expected) : expected[k] # NoToken
               /\ mail'.tokens = mail.tokens \cup {expected[k] : k \in 1..Len(expected)}
       /\ mail'.tokens # mail.tokens => \E v \in Workers : wk'[v].sent > wk[v].sent
       /\ (wk'[w].pc = "done" /\ wk'[w].failedAt # "none") =>
            wk'[w].sent = 0 /\ wk'[w].links = <<>>]_vars

\* A run that made an archive has sent its emails, with the one link of the
\* archive record the record now holds.
C28_Witness ==
  \E w \in Workers :
    /\ wk[w].pc = "done"
    /\ wk[w].sent > 0
    /\ Len(wk[w].links) = 1
    /\ mail.tokens = {wk[w].links[1]}
    /\ Len(rec.files) = 1
    /\ rec.files[1].objectKey.kind = "archive"
    /\ rec.files[1].downloadToken = wk[w].links[1]

\* C29: whatever deliveries and retries of the job have run, once the job
\* has left the queue and no run is in progress the store holds at most one
\* archive object of the submission, and it is the one the record's `files`
\* refers to.
C29_OneReferencedArchive ==
  (~queue.present /\ \A w \in Workers : wk[w].pc \in {"idle", "done"}) =>
    LET archives == {key \in s3 : key.kind = "archive"}
    IN /\ Cardinality(archives) <= 1
       /\ archives \subseteq ObjectKeys(rec.files)

\* C30: a run on a job whose submission has no record drops the job: it
\* returns normally, so that the message is deleted and not retried, having
\* made no write to the record store, no object-store call and no
\* notification.
C30_AbsentRecordDropsJob ==
  \A w \in Workers :
    wk[w].job = UnknownId =>
      /\ wk[w].pc = "done"
      /\ wk[w].result = "returned"
      /\ wk[w].dbWrites = 0
      /\ wk[w].marks = 0
      /\ wk[w].s3Calls = 0
      /\ wk[w].sent = 0
      /\ queue.stray = "dropped"

\* The job of an unknown submission has been dropped while the job of the
\* submission itself is still waiting: nothing was written or sent.
C30_Witness ==
  /\ wk["w1"].job = UnknownId
  /\ wk["w1"].branch = "absent"
  /\ queue.stray = "dropped"
  /\ queue.present
  /\ rec.status = "PENDING_ARCHIVE"
  /\ s3 = ObjectKeys(rec.files)
  /\ ~mail.attempted

====
